---- MODULE Spec2Model ----
(***************************************************************************)
(* Read-through caching layer of cds-caching: CapOperations.send / run and *)
(* the CachingService event handlers they reach through cache.send(...).   *)
(***************************************************************************)
EXTENDS Integers, Sequences, FiniteSets, TLC

(***************************************************************************)
(* JavaScript values.  Every value is a record with a type tag t, so that  *)
(* values of different types compare unequal.                              *)
(*   text: the characters of a string are either the JSON serialisation of *)
(*   a value ([json |-> tree]) or characters that are no JSON text         *)
(*   ([plain |-> "..."]).                                                  *)
(***************************************************************************)
Undefined == [t |-> "undefined"]
Null == [t |-> "null"]
NaN == [t |-> "nan"]
DateV == [t |-> "date", iso |-> "2020-01-01T00:00:00.000Z"]
Num(n) == [t |-> "number", n |-> n]
Bool(b) == [t |-> "boolean", b |-> b]
Str(txt) == [t |-> "string", s |-> txt]
Plain(chars) == [plain |-> chars]
Arr(seq) == [t |-> "array", a |-> seq]
Obj(fields) == [t |-> "object", f |-> fields]

\* typeof v
TypeOf(v) ==
    CASE v.t = "undefined" -> "undefined"
      [] v.t \in {"number", "nan"} -> "number"
      [] v.t = "string" -> "string"
      [] v.t = "boolean" -> "boolean"
      [] OTHER -> "object"

\* v.name, for a v that is neither null nor undefined; v?.name otherwise
Field(v, name) ==
    IF v.t = "object" /\ name \in DOMAIN v.f THEN v.f[name] ELSE Undefined

\* The value JSON.stringify serialises in place of v: NaN becomes null, a Date
\* its ISO string, and a property holding undefined is left out.
RECURSIVE ToJSON(_)
ToJSON(v) ==
    CASE v.t = "nan" -> Null
      [] v.t = "date" -> Str(Plain(v.iso))
      [] v.t = "object" ->
            Obj([n \in {m \in DOMAIN v.f : v.f[m].t # "undefined"} |-> ToJSON(v.f[n])])
      [] OTHER -> v

\* JSON.stringify(v), for a v whose typeof is "object"
JSONStringify(v) == Str([json |-> ToJSON(v)])

\* JSON.parse(s): [ok, v]; ok = FALSE stands for the SyntaxError it throws
JSONParse(s) ==
    IF "json" \in DOMAIN s.s THEN [ok |-> TRUE, v |-> s.s.json]
    ELSE [ok |-> FALSE, v |-> Undefined]

(***************************************************************************)
(* Requests, ambient context and caller options.                           *)
(*   A descriptor is what one read-through call is given: its shape        *)
(*   ("send": rt.send(request, service); "request": rt.run(req, next);     *)
(*   "query": rt.run(query, srv); "other": rt.run of anything else), the   *)
(*   ambient cds.context it runs under, and the request fields the code    *)
(*   reads.  verb is the key of the CQN object (request.query / the query  *)
(*   itself), "" when there is none.                                       *)
(***************************************************************************)
Ctx(tn, us, lc) == [tenant |-> tn, user |-> us, locale |-> lc]
Contexts == {Ctx("t1", "u1", "en"), Ctx("t2", "u1", "en"),
             Ctx("t1", "u2", "en"), Ctx("t1", "u1", "de")}
Methods == {"GET", "POST", "PUT", "DELETE", "PATCH", "post", "Patch"}
Verbs == {"SELECT", "INSERT", "UPDATE", "DELETE"}
Payloads == {"d1", "d2"}
ServiceName == "srv"

Desc(sh, cx, me, vb, da, snd, res) ==
    [shape |-> sh, ctx |-> cx, method |-> me, verb |-> vb, data |-> da,
     hasSend |-> snd, hasRes |-> res, event |-> ""]

\* the request of a call of the function (action) ev: req.event
FunctionCall(d, ev) == [d EXCEPT !.event = ev]

SendDescs == {Desc("send", cx, me, "", da, snd, FALSE) :
                 cx \in Contexts, me \in Methods, da \in Payloads, snd \in BOOLEAN}
RequestDescs == {Desc("request", cx, "GET", vb, da, TRUE, res) :
                 cx \in Contexts, vb \in Verbs, da \in Payloads, res \in BOOLEAN}
QueryDescs == {Desc("query", cx, "", vb, da, TRUE, FALSE) :
                 cx \in Contexts, vb \in Verbs, da \in Payloads}
OtherDescs == {Desc("other", cx, "", "", "d1", TRUE, FALSE) : cx \in Contexts}
Descs == SendDescs \cup RequestDescs \cup QueryDescs \cup OtherDescs

\* Options objects a caller passes: any of the properties may be missing.
NoOptions == [n \in {} |-> 0]
TaggedOptions == [ttl |-> 60, tags |-> <<"books">>]
OptionSets == {NoOptions, TaggedOptions}

\* { ...defaults, ...(options || {}) }
Spread(defaults, options) ==
    [n \in DOMAIN defaults \cup DOMAIN options |->
        IF n \in DOMAIN options THEN options[n] ELSE defaults[n]]

\* String.prototype.toUpperCase on the method names of the model
ToUpperCase(m) ==
    CASE m = "post" -> "POST"
      [] m = "Patch" -> "PATCH"
      [] OTHER -> m

(***************************************************************************)
(* KeyManager and TagResolver (collaborators of CapOperations).            *)
(***************************************************************************)
\* a context field, the empty segment when it is missing
Segment(fields, name) == IF name \in DOMAIN fields THEN fields[name] ELSE ""

\* createContentHash(descriptor): a stable digest of the variable payload
\* (query, params, body); distinct payloads have distinct digests.
CreateContentHash(d) == [query |-> d.verb, data |-> d.data]

\* createKey(descriptor, contextFields, template) with no template: the context
\* fields it is given, in a fixed order, and the content hash.
CreateKey(d, contextFields, template) ==
    [tenant |-> Segment(contextFields, "tenant"),
     user |-> Segment(contextFields, "user"),
     locale |-> Segment(contextFields, "locale"),
     serviceName |-> Segment(contextFields, "serviceName"),
     method |-> Segment(contextFields, "method"),
     path |-> Segment(contextFields, "path"),
     hash |-> CreateContentHash(d)]

\* cacheKey: null
NullKey == [null |-> TRUE]

\* resolveTags(tagSpec, response, contextFields) for a literal array or no spec
ResolveTags(options, response) ==
    IF "tags" \in DOMAIN options THEN options.tags ELSE <<>>

(***************************************************************************)
(* The backing store and the CachingService event handlers.                *)
(*   store maps each present key to the value and ttl given to cache.set.  *)
(***************************************************************************)
EmptyStore == [k \in {} |-> 0]

\* this.cache.set(key, value, ttl)
StoreSet(st, key, value, ttl) ==
    [k \in DOMAIN st \cup {key} |->
        IF k = key THEN [value |-> value, ttl |-> ttl] ELSE st[k]]

\* this.cache.get(key)
StoreGet(st, key) == IF key \in DOMAIN st THEN st[key].value ELSE Undefined

\* this.cache.delete(key)
StoreDelete(st, keys) == [k \in DOMAIN st \ keys |-> st[k]]

\* variant of handleSet that keeps an entry already stored under the key
HandleSetIfAbsent(st, key, value, ttl) ==
    IF key \in DOMAIN st THEN st
    ELSE StoreSet(st, key,
                  IF TypeOf(value) = "object" THEN JSONStringify(value) ELSE value,
                  ttl)

\* variant of handleSet that drops the entries under other keys
HandleSetAlone(st, key, value, ttl) ==
    StoreSet(EmptyStore, key,
             IF TypeOf(value) = "object" THEN JSONStringify(value) ELSE value,
             ttl)

\* handleSet: an object is stored as its JSON text
HandleSet(st, key, value, ttl) ==
    StoreSet(st, key,
             IF TypeOf(value) = "object" THEN JSONStringify(value) ELSE value,
             ttl)

\* variant of handleGet that hands back the stored string unparsed
HandleGetUnparsed(st, key) == StoreGet(st, key)

\* variant of handleGet that answers from another entry when there is one
HandleGetAny(st, key) ==
    LET others == DOMAIN st \ {key}
        value == StoreGet(st, IF others = {} THEN key ELSE CHOOSE k \in others : TRUE)
    IN
    IF TypeOf(value) = "string"
    THEN IF JSONParse(value).ok THEN JSONParse(value).v ELSE value
    ELSE value

\* handleGet: a stored string is parsed as JSON when it parses
HandleGet(st, key) ==
    LET value == StoreGet(st, key) IN
    IF TypeOf(value) = "string"
    THEN IF JSONParse(value).ok THEN JSONParse(value).v ELSE value
    ELSE value

\* BasicOperations.has(key)
Has(st, key) == key \in DOMAIN st

\* the tags of a stored entry
EntryTags(st, key) ==
    LET tags == Field(HandleGet(st, key), "tags") IN
    IF tags.t = "array" THEN tags.a ELSE <<>>

\* BasicOperations.deleteByTag(tag): every entry carrying the tag is deleted
DeleteByTagStore(st, tag) ==
    StoreDelete(st, {k \in DOMAIN st :
                        \E i \in DOMAIN EntryTags(st, k) : EntryTags(st, k)[i] = tag})

(***************************************************************************)
(* Origin responses and worlds.                                            *)
(*   A world fixes, for one behaviour, the two callers (descriptor and     *)
(*   options) that issue read-through calls and the values the origin may  *)
(*   answer with.  The second caller is the first one with at most one     *)
(*   field changed.                                                        *)
(***************************************************************************)
RowA == Obj([ID |-> Num(1)])
RowB == Obj([ID |-> Num(2)])
RowD == Obj([ID |-> Num(1), modifiedAt |-> DateV])
Values == {Undefined, Null, RowA, RowB, RowD}
ValueSets == {{Undefined}, {Null}, {RowA}, {RowD}, {RowA, RowB}}
OriginErrors == {"E1", "E2"}

BaseContext == Ctx("t1", "u1", "en")
Bases == {d \in Descs : /\ d.ctx = BaseContext /\ d.data = "d1" /\ d.hasSend
                        /\ d.method \in {"GET", ""} /\ d.verb \in {"SELECT", ""}
                        /\ d.shape # "other"}

CtxDiff(c1, c2) == Cardinality({n \in DOMAIN c1 : c1[n] # c2[n]})
Diff(d1, d2) ==
    Cardinality({n \in DOMAIN d1 \ {"ctx"} : d1[n] # d2[n]}) + CtxDiff(d1.ctx, d2.ctx)

Caller(d, o) == [desc |-> d, options |-> o]

\* the runtime configuration with both switches off
DefaultConfig == [metricsEnabled |-> FALSE, keyMetricsEnabled |-> FALSE]
Configs == [metricsEnabled : BOOLEAN, keyMetricsEnabled : BOOLEAN]

\* a world whose callers use cache.rt.send / cache.rt.run and nothing else
World(callers, vals, concurrent) ==
    [callers |-> callers, vals |-> vals, concurrent |-> concurrent,
     api |-> "rt", admin |-> FALSE, events |-> FALSE, config |-> DefaultConfig,
     registers |-> FALSE, reliable |-> FALSE, invalidates |-> FALSE]

Worlds ==
    {World({Caller(a, oa), Caller(a, ob)}, vs, FALSE) :
        a \in Bases, oa \in OptionSets, ob \in OptionSets, vs \in ValueSets}
    \cup
    UNION {{World({Caller(a, o), Caller(b, o)}, {RowA}, FALSE) :
                o \in OptionSets,
                b \in {d \in Descs : d.shape = a.shape /\ Diff(a, d) = 1}} :
           a \in Bases}
    \cup
    {World({Caller(b, NoOptions)}, {RowA}, FALSE) : b \in OtherDescs}

\* two concurrent callers with the same descriptor
ConcurrentWorlds ==
    {World({Caller(a, o)}, {RowA, RowB}, TRUE) : a \in Bases, o \in OptionSets}
    \cup
    \* two concurrent callers with different keys, and collaborators that
    \* never fail
    {[World({Caller(a, NoOptions), Caller([a EXCEPT !.data = "d2"], NoOptions)},
            {RowA, RowB}, TRUE) EXCEPT !.reliable = TRUE] :
        a \in {d \in Bases : d.shape = "send"}}

\* one caller of rt.send, and an administrator who switches the recorder
AdminWorlds ==
    {[World({Caller(a, NoOptions)}, {RowA}, FALSE) EXCEPT !.admin = TRUE, !.config = cfg] :
        a \in {d \in Bases : d.shape = "send"}, cfg \in Configs}

\* one caller of the deprecated shortcuts cache.send / cache.run, with a
\* request that the shortcut hands to the read-through layer
ShortcutDescs ==
    {d \in Descs : /\ d.ctx = BaseContext /\ d.data = "d1" /\ d.hasSend /\ ~d.hasRes
                    /\ (d.shape = "send" => d.method = "GET")}
ShortcutWorlds ==
    {[World({Caller(d, NoOptions)}, vs, FALSE) EXCEPT !.api = "deprecated"] :
        d \in ShortcutDescs, vs \in {{RowA}, {Null}}}

\* one caller of rt.send, and a client that emits SET and GET events:
\* cache.send("SET", {key, value, ttl}), cache.send("GET", {key})
EventKey == [name |-> "k1"]
EventValues == {RowA, Str(Plain("abc")), Str([json |-> Num(123)]),
                Str([json |-> Bool(TRUE)])}
EventData ==
    {[key |-> EventKey, value |-> v] : v \in EventValues}
    \cup {[key |-> EventKey, value |-> RowA, ttl |-> 60]}
DispatchWorlds ==
    {[World({Caller(a, NoOptions)}, {RowA}, FALSE) EXCEPT !.events = TRUE] :
        a \in {d \in Bases : d.shape = "send"}}

\* one caller of rt.send whose hits and misses are counted, and someone who
\* sends DELETE and CLEAR events
InvalidationWorlds ==
    {[World({Caller(a, NoOptions)}, {RowA}, FALSE) EXCEPT
          !.invalidates = TRUE,
          !.config = [metricsEnabled |-> TRUE, keyMetricsEnabled |-> FALSE]] :
        a \in {d \in Bases : d.shape = "send"}}

\* one caller of rt.run with the Request of a function call (bound: the
\* request has a query; unbound: it has none), in an application that
\* registers cachable functions with addCachableFunction
FunctionNames == {"getBooks"}
RegisteredOptions ==
    {[ttl |-> 60, key |-> "{tenant}:{hash}", tags |-> <<"books">>],
     [n \in {"@cache.ttl", "@cache.key", "@cache.tags"} |->
        CASE n = "@cache.ttl" -> 60
          [] n = "@cache.key" -> "{tenant}:{hash}"
          [] OTHER -> <<"books">>]}
RegistryWorlds ==
    {[World({Caller(FunctionCall(Desc("request", BaseContext, "GET", vb, "d1",
                                      TRUE, FALSE), ev), NoOptions)},
            {RowA}, FALSE) EXCEPT !.registers = TRUE] :
        vb \in {"SELECT", ""}, ev \in FunctionNames}
MaxFunctions == 1

Procs == {1, 2}
MaxFaults == 2

VARIABLES
    store,      \* the backing store: key -> [value, ttl]
    call,       \* per caller process: the read-through call in flight
    prev,       \* the event completed last (history)
    faults,     \* failures injected so far
    world,      \* the callers and origin of this behaviour
    statistics, \* the recorder's switches: metricsEnabled, keyMetricsEnabled
    cacheAnnotatedFunctions,  \* CapOperations: the registered functions
    currentStats, \* the recorder: whether a hit / a miss was counted since the
                  \* last reset
    history     \* origins: the responses the origin has returned, with the key
                \* of the call; stale: the keys whose entry was written from a
                \* response fetched before an invalidation of the key completed

vars == <<store, call, prev, faults, world, statistics, cacheAnnotatedFunctions, currentStats, history>>

(***************************************************************************)
(* One read-through call.                                                  *)
(*   pc: the await the call is suspended at; ops: the collaborator calls   *)
(*   it has made so far, in order, with their outcome; out: what the call  *)
(*   gave back to its caller.                                              *)
(***************************************************************************)
NoDesc == Desc("", BaseContext, "", "", "", FALSE, FALSE)
NoOut == [kind |-> "none"]
Idle ==
    [pc |-> "idle", desc |-> NoDesc, options |-> NoOptions, opts |-> NoOptions,
     key |-> NullKey, got |-> Undefined, resp |-> Undefined, hitLatency |-> 0,
     totalLatency |-> 0, lastSet |-> FALSE, overtaken |-> "no", staleHit |-> FALSE,
     cacheErrors |-> <<>>, ops |-> <<>>, awaits |-> 0, out |-> NoOut]

\* the envelope { result, cacheKey, metadata: { hit, latency }, cacheErrors }
Envelope(result, key, hit, latency, errors) ==
    [kind |-> "envelope", result |-> result, cacheKey |-> key,
     metadata |-> [hit |-> hit, latency |-> latency], cacheErrors |-> errors]
\* the call threw error
Thrown(error) == [kind |-> "thrown", error |-> error]
\* the call returned value itself, not wrapped in an envelope
Raw(value) == [kind |-> "raw", value |-> value]

\* variant of safeCacheOperation that reports no operation name
SafeCacheOperationAnonymous(ok, result, name, key) ==
    IF ok THEN [success |-> TRUE, result |-> result, error |-> Null]
    ELSE [success |-> FALSE, result |-> Null,
          error |-> [message |-> "failed", operation |-> "cache", context |-> key]]

\* safeCacheOperation(operation, name, context): ok tells whether operation()
\* returned (with result) or threw
SafeCacheOperation(ok, result, name, key) ==
    IF ok THEN [success |-> TRUE, result |-> result, error |-> Null]
    ELSE [success |-> FALSE, result |-> Null,
          error |-> [message |-> "failed", operation |-> name, context |-> key]]

Op(name, outcome) == [op |-> name, outcome |-> outcome]

\* the SET event of a call, with the data it was sent with
SetOp(outcome, key, value, ttl) ==
    [op |-> "set", outcome |-> outcome,
     data |-> [key |-> key, value |-> value, ttl |-> ttl]]

\* a collaborator call may fail while the failure budget lasts
MayFail(ok) == ok \/ (faults < MaxFaults /\ ~world.reliable)
Count(ok) == faults' = IF ok THEN faults ELSE faults + 1

\* the callers of the world run one call at a time unless the world is
\* concurrent; the sequential worlds use process 1 alone
MayStart(p) ==
    /\ call[p].pc = "idle"
    /\ world.concurrent \/ (p = 1 /\ \A q \in Procs : call[q].pc = "idle")

Begin(p, cl, pc, opts, key, ops, out) ==
    call' = [call EXCEPT ![p] =
                [Idle EXCEPT !.pc = pc, !.desc = cl.desc, !.options = cl.options,
                             !.opts = opts, !.key = key, !.ops = ops, !.out = out]]

\* variant that sends every SET with ttl 0
NoTtl(options, name) == 0

\* x || 0 for a ttl option
OrZero(options, name) == IF name \in DOMAIN options THEN options[name] ELSE 0
\* options.key, the key template; "" stands for none
NoTemplate == ""
Template(options) == IF "key" \in DOMAIN options THEN options.key ELSE NoTemplate

BypassEnvelope == Envelope(Null, NullKey, FALSE, 0, <<>>)

\* variant of the entry that drops the resolved tags
WrappedValueUntagged(response, options) ==
    Obj([value |-> response, tags |-> Arr(<<>>)])

\* the entry written on a miss: { value, tags, timestamp }; the timestamp is
\* read by no operation of the model and is left out
WrappedValue(response, options) ==
    Obj([value |-> response, tags |-> Arr(ResolveTags(options, response))])

\* variant of the hit test that takes a value of null for no value
IsHitTruthy(getResult) ==
    getResult.success /\ Field(getResult.result, "value") \notin {Undefined, Null}

\* getResult.success && getResult.result?.value !== undefined
IsHit(getResult) ==
    getResult.success /\ Field(getResult.result, "value") # Undefined

\* variant of the hit envelope that returns the entry instead of its value
HitEnvelopeOfEntry(entry, key, latency, errors) ==
    Envelope(entry, key, TRUE, latency, errors)

\* variant of the hit envelope that reports a miss
HitEnvelopeAsMiss(entry, key, latency, errors) ==
    Envelope(Field(entry, "value"), key, FALSE, latency, errors)

\* the hit envelope, from the entry that GET returned
HitEnvelope(entry, key, latency, errors) ==
    Envelope(Field(entry, "value"), key, TRUE, latency, errors)

\* the miss envelope
MissEnvelope(response, key, latency, errors) ==
    Envelope(response, key, FALSE, latency, errors)

\* variant that drops the error of a failed result
PushErrorNever(errors, result) == errors

\* cacheErrors after a recordHit / recordMiss / SET result
PushError(errors, result) ==
    IF result.success THEN errors ELSE Append(errors, result.error)

Outcome(ok) == IF ok THEN "ok" ELSE "threw"

\* statistics.recordHit / recordMiss that returned: the sample is counted
\* while metrics collection is switched on
NoSamples == [hit |-> FALSE, miss |-> FALSE]
Sample(ok, kind) ==
    currentStats' = IF ok /\ statistics.metricsEnabled
                    THEN [currentStats EXCEPT ![kind] = TRUE]
                    ELSE currentStats

(***************************************************************************)
(* The steps shared by the shapes; shape-specific actions follow.          *)
(***************************************************************************)
\* await safeCacheOperation(() => this.cache.has(key), 'has', ...)
HasStep(p) ==
    \E ok \in BOOLEAN :
        /\ MayFail(ok) /\ Count(ok)
        /\ LET c == call[p]
               hasKeyResult == SafeCacheOperation(ok, Has(store, c.key), "has", c.key)
               hasKey == hasKeyResult.success /\ hasKeyResult.result
           IN call' = [call EXCEPT ![p] =
                  [c EXCEPT !.pc = IF hasKey THEN "recordHit" ELSE "origin",
                            !.awaits = @ + 1,
                            !.hitLatency = c.awaits + 1,
                            !.cacheErrors = <<>>,
                            !.ops = Append(@, Op("has",
                                       IF ~ok THEN "threw"
                                       ELSE IF hasKey THEN "true" ELSE "false"))]]
        /\ UNCHANGED <<store, prev, world, statistics, cacheAnnotatedFunctions, currentStats, history>>

\* hit branch of send and of a SELECT query: recordHit, then GET
RecordHitStep(p) ==
    \E ok \in BOOLEAN :
        /\ MayFail(ok) /\ Count(ok)
        /\ LET c == call[p]
               hitStatsResult == SafeCacheOperation(ok, Null, "recordHit", c.key)
           IN call' = [call EXCEPT ![p] =
                  [c EXCEPT !.pc = "get",
                            !.awaits = @ + 1,
                            !.cacheErrors = PushError(@, hitStatsResult),
                            !.ops = Append(@, Op("recordHit", Outcome(ok)))]]
        /\ Sample(ok, "hit")
        /\ UNCHANGED <<store, prev, world, statistics, cacheAnnotatedFunctions, history>>

\* await safeCacheOperation(() => this.cache.send("GET", { key }), 'get', ...)
GetStep(p) ==
    \E ok \in BOOLEAN :
        /\ MayFail(ok) /\ Count(ok)
        /\ LET c == call[p]
               getResult == SafeCacheOperation(ok, HandleGet(store, c.key), "get", c.key)
           IN call' = [call EXCEPT ![p] =
                  IF IsHit(getResult)
                  THEN [c EXCEPT !.pc = "done",
                                 !.awaits = @ + 1,
                                 !.got = getResult.result,
                                 !.staleHit = c.key \in history.stale,
                                 !.ops = Append(@, Op("get", "value")),
                                 !.out = HitEnvelope(getResult.result, c.key,
                                                     c.hitLatency, c.cacheErrors)]
                  ELSE [c EXCEPT !.pc = "origin",
                                 !.awaits = @ + 1,
                                 !.ops = Append(@, Op("get",
                                            IF ok THEN "nothing" ELSE "threw"))]]
        /\ UNCHANGED <<store, prev, world, statistics, cacheAnnotatedFunctions, currentStats, history>>

\* variant that throws a new error in place of the origin's
OnOriginErrorWrapped(error) == Thrown("Service operation failed")

\* what the call does when the origin throws: log, re-throw
OnOriginError(error) == Thrown(error)

\* const response = await <origin>: it answers or throws
OriginStep(p) ==
    LET c == call[p] IN
    /\ \/ \E r \in world.vals :
            /\ call' = [call EXCEPT ![p] =
                  [c EXCEPT !.pc = "recordMiss", !.awaits = @ + 1, !.resp = r,
                            !.totalLatency = c.awaits + 1,
                            !.ops = Append(@, Op("origin", "ok"))]]
            /\ history' = [history EXCEPT
                              !.origins = @ \cup {[key |-> c.key, resp |-> r]}]
            /\ UNCHANGED faults
       \/ \E e \in OriginErrors :
            /\ MayFail(FALSE) /\ Count(FALSE)
            /\ call' = [call EXCEPT ![p] =
                  [c EXCEPT !.pc = "done", !.awaits = @ + 1,
                            !.ops = Append(@, Op("origin", e)),
                            !.out = OnOriginError(e)]]
            /\ UNCHANGED history
    /\ UNCHANGED <<store, prev, world, statistics, cacheAnnotatedFunctions, currentStats>>

\* await safeCacheOperation(() => this.statistics.recordMiss(...), 'recordMiss', ...)
RecordMissStep(p) ==
    \E ok \in BOOLEAN :
        /\ MayFail(ok) /\ Count(ok)
        /\ LET c == call[p]
               missStatsResult == SafeCacheOperation(ok, Null, "recordMiss", c.key)
           IN call' = [call EXCEPT ![p] =
                  [c EXCEPT !.pc = "set",
                            !.awaits = @ + 1,
                            !.cacheErrors = PushError(@, missStatsResult),
                            !.ops = Append(@, Op("recordMiss", Outcome(ok)))]]
        /\ Sample(ok, "miss")
        /\ UNCHANGED <<store, prev, world, statistics, cacheAnnotatedFunctions, history>>

\* SET of the wrapped value, then the miss envelope (history: lastSet marks the
\* call in flight whose SET was the last one applied under its key, until the
\* entry is deleted)
SetStep(p) ==
    \E ok \in BOOLEAN :
        /\ MayFail(ok) /\ Count(ok)
        /\ LET c == call[p]
               wrappedValue == WrappedValue(c.resp, c.opts)
               ttl == OrZero(c.opts, "ttl")
               setResult == SafeCacheOperation(ok, Undefined, "set", c.key)
               cacheErrors == PushError(c.cacheErrors, setResult)
           IN /\ store' = IF ok THEN HandleSet(store, c.key, wrappedValue, ttl)
                          ELSE store
              /\ call' = [q \in Procs |->
                  IF q = p
                  THEN [c EXCEPT !.pc = "done",
                                 !.awaits = @ + 1,
                                 !.cacheErrors = cacheErrors,
                                 !.lastSet = ok,
                                 !.ops = Append(@, SetOp(Outcome(ok), c.key,
                                                         wrappedValue, ttl)),
                                 !.out = MissEnvelope(c.resp, c.key, c.totalLatency,
                                                      cacheErrors)]
                  ELSE [call[q] EXCEPT
                            !.lastSet = @ /\ ~(ok /\ call[q].key = c.key)]]
              /\ history' = [history EXCEPT
                                !.stale = IF ~ok THEN @
                                          ELSE IF c.overtaken = "fetched"
                                          THEN @ \cup {c.key} ELSE @ \ {c.key}]
        /\ UNCHANGED <<prev, world, statistics, cacheAnnotatedFunctions, currentStats>>

(***************************************************************************)
(* CapOperations.send(request, service, options)                           *)
(***************************************************************************)
\* variant of the bypass test of send that compares the method as it is written
SendBypassesExact(d) ==
    d.method \in {"POST", "PUT", "DELETE", "PATCH"} \/ ~d.hasSend

\* ['POST', 'PUT', 'DELETE', 'PATCH'].includes(request.method?.toUpperCase())
\*   || !service.send
SendBypasses(d) ==
    ToUpperCase(d.method) \in {"POST", "PUT", "DELETE", "PATCH"} \/ ~d.hasSend

SendKeyParts(d) ==
    [user |-> d.ctx.user, tenant |-> d.ctx.tenant, locale |-> d.ctx.locale,
     serviceName |-> ServiceName, path |-> "/Books", method |-> d.method,
     data |-> d.data]

SendStart(p) ==
    /\ MayStart(p)
    /\ \E cl \in world.callers :
        /\ cl.desc.shape = "send"
        /\ LET requestOptions == Spread([ttl |-> 0], cl.options)
               key == CreateKey(cl.desc, SendKeyParts(cl.desc), Template(requestOptions))
           IN IF SendBypasses(cl.desc)
              THEN Begin(p, cl, "done", requestOptions, NullKey, <<>>, BypassEnvelope)
              ELSE Begin(p, cl, "has", requestOptions, key, <<>>, NoOut)
    /\ UNCHANGED <<store, prev, faults, world, statistics, cacheAnnotatedFunctions, currentStats, history>>

At(p, shape, pc) == call[p].desc.shape = shape /\ call[p].pc = pc

SendHas(p) == At(p, "send", "has") /\ HasStep(p)
SendRecordHit(p) == At(p, "send", "recordHit") /\ RecordHitStep(p)
SendGet(p) == At(p, "send", "get") /\ GetStep(p)
SendOrigin(p) == At(p, "send", "origin") /\ OriginStep(p)
SendRecordMiss(p) == At(p, "send", "recordMiss") /\ RecordMissStep(p)
SendSet(p) == At(p, "send", "set") /\ SetStep(p)

(***************************************************************************)
(* CapOperations.run(req, next, options) for a Request                     *)
(***************************************************************************)
\* req.query?.UPDATE || req.query?.INSERT || req.query?.DELETE
RequestBypasses(d) == d.verb \in {"UPDATE", "INSERT", "DELETE"}

\* obj?.[name] || default
Annotation(obj, name, default) ==
    IF name \in DOMAIN obj THEN obj[name] ELSE default

\* this.cacheAnnotatedFunctions[functionType].find(f => f.name === req.event):
\* the first registered { name, options } of that name, or undefined (here the
\* object without properties)
FindFunction(d) ==
    LET list == cacheAnnotatedFunctions[IF d.verb # "" THEN "bound" ELSE "unbound"]
        found == {i \in DOMAIN list : list[i].name = d.event}
    IN IF found = {} THEN NoOptions
       ELSE list[CHOOSE i \in found : \A j \in found : i <= j]

\* extractFunctionCacheOptions(req, options)
ExtractFunctionCacheOptions(d, options) ==
    LET functionOptions == FindFunction(d) IN
    Spread([ttl |-> Annotation(functionOptions, "@cache.ttl", 0),
            key |-> Annotation(functionOptions, "@cache.key", NoTemplate),
            tags |-> Annotation(functionOptions, "@cache.tags", <<>>)], options)

\* extractEntityCacheOptions(req, options); the target entity of the requests
\* of the model carries no @cache annotation
ExtractEntityCacheOptions(d, options) ==
    LET target == NoOptions IN
    Spread([ttl |-> Annotation(target, "@cache.ttl", 0),
            key |-> Annotation(target, "@cache.key", NoTemplate),
            tags |-> Annotation(target, "@cache.tags", <<>>)], options)

\* req.event ? extractFunctionCacheOptions(...) : extractEntityCacheOptions(...)
ExtractCacheOptions(d, options) ==
    IF d.event # "" THEN ExtractFunctionCacheOptions(d, options)
    ELSE ExtractEntityCacheOptions(d, options)

\* variant that writes no header
SetHeaderNever(d, ops, name, value, ok) == ops

\* req.res?.setHeader(name, value): ok tells whether it returned
SetHeader(d, ops, name, value, ok) ==
    IF d.hasRes
    THEN Append(ops, [op |-> name, outcome |-> Outcome(ok), value |-> value])
    ELSE ops
HeaderError == "ERR_HTTP_HEADERS_SENT"
HeaderMayFail(d, ok) == IF d.hasRes THEN MayFail(ok) ELSE ok

RunRequestStart(p) ==
    /\ MayStart(p)
    /\ \E cl \in world.callers, ok \in BOOLEAN :
        /\ cl.desc.shape = "request"
        /\ LET cacheOptions == ExtractCacheOptions(cl.desc, cl.options)
               cacheKey == CreateKey(cl.desc, [n \in {} |-> ""], Template(cacheOptions))
               ops == SetHeader(cl.desc, <<>>, "x-sap-cap-cache-key", cacheKey, ok)
           IN IF RequestBypasses(cl.desc)
              THEN /\ ok
                   /\ Begin(p, cl, "passthrough", NoOptions, NullKey, <<>>, NoOut)
                   /\ UNCHANGED faults
              ELSE /\ HeaderMayFail(cl.desc, ok) /\ Count(ok)
                   /\ IF ok
                      THEN Begin(p, cl, "get", cacheOptions, cacheKey, ops, NoOut)
                      ELSE Begin(p, cl, "done", cacheOptions, cacheKey, ops,
                                 Thrown(HeaderError))
    /\ UNCHANGED <<store, prev, world, statistics, cacheAnnotatedFunctions, currentStats, history>>

\* GET first; a value counts as the hit
RunRequestGet(p) ==
    /\ At(p, "request", "get")
    /\ \E ok \in BOOLEAN :
        /\ MayFail(ok) /\ Count(ok)
        /\ LET c == call[p]
               getResult == SafeCacheOperation(ok, HandleGet(store, c.key), "get", c.key)
               cacheHit == IsHit(getResult)
           IN call' = [call EXCEPT ![p] =
                  [c EXCEPT !.pc = IF cacheHit THEN "recordHit" ELSE "origin",
                            !.awaits = @ + 1,
                            !.hitLatency = c.awaits + 1,
                            !.got = IF cacheHit THEN getResult.result ELSE Undefined,
                            !.staleHit = cacheHit /\ c.key \in history.stale,
                            !.cacheErrors = <<>>,
                            !.ops = Append(@, Op("get",
                                       IF ~ok THEN "threw"
                                       ELSE IF cacheHit THEN "value" ELSE "nothing"))]]
    /\ UNCHANGED <<store, prev, world, statistics, cacheAnnotatedFunctions, currentStats, history>>

\* recordHit, the hit header, the hit envelope
RunRequestRecordHit(p) ==
    /\ At(p, "request", "recordHit")
    /\ \E ok \in BOOLEAN, okHeader \in BOOLEAN :
        /\ MayFail(ok) /\ HeaderMayFail(call[p].desc, okHeader)
        /\ faults' = faults + (IF ok THEN 0 ELSE 1) + (IF okHeader THEN 0 ELSE 1)
        /\ faults' <= MaxFaults
        /\ Sample(ok, "hit")
        /\ LET c == call[p]
               hitStatsResult == SafeCacheOperation(ok, Null, "recordHit", c.key)
               cacheErrors == PushError(c.cacheErrors, hitStatsResult)
               ops == SetHeader(c.desc, Append(c.ops, Op("recordHit", Outcome(ok))),
                                "x-sap-cap-cache", "hit", okHeader)
           IN call' = [call EXCEPT ![p] =
                  [c EXCEPT !.pc = "done",
                            !.awaits = @ + 1,
                            !.cacheErrors = cacheErrors,
                            !.ops = ops,
                            !.out = IF okHeader
                                    THEN HitEnvelope(c.got, c.key, c.hitLatency,
                                                     cacheErrors)
                                    ELSE Thrown(HeaderError)]]
    /\ UNCHANGED <<store, prev, world, statistics, cacheAnnotatedFunctions, history>>

RunRequestOrigin(p) == At(p, "request", "origin") /\ OriginStep(p)

\* recordMiss, then the miss header inside the try block around next()
RunRequestRecordMiss(p) ==
    /\ At(p, "request", "recordMiss")
    /\ \E ok \in BOOLEAN, okHeader \in BOOLEAN :
        /\ MayFail(ok) /\ HeaderMayFail(call[p].desc, okHeader)
        /\ faults' = faults + (IF ok THEN 0 ELSE 1) + (IF okHeader THEN 0 ELSE 1)
        /\ faults' <= MaxFaults
        /\ Sample(ok, "miss")
        /\ LET c == call[p]
               missStatsResult == SafeCacheOperation(ok, Null, "recordMiss", c.key)
               ops == SetHeader(c.desc, Append(c.ops, Op("recordMiss", Outcome(ok))),
                                "x-sap-cap-cache", "miss", okHeader)
           IN call' = [call EXCEPT ![p] =
                  [c EXCEPT !.pc = IF okHeader THEN "set" ELSE "done",
                            !.awaits = @ + 1,
                            !.cacheErrors = PushError(@, missStatsResult),
                            !.ops = ops,
                            !.out = IF okHeader THEN NoOut ELSE Thrown(HeaderError)]]
    /\ UNCHANGED <<store, prev, world, statistics, cacheAnnotatedFunctions, history>>

RunRequestSet(p) == At(p, "request", "set") /\ SetStep(p)

(***************************************************************************)
(* CapOperations.run(query, srv, options) for a cds.ql query, and run of   *)
(* anything else                                                           *)
(***************************************************************************)
RunQueryStart(p) ==
    /\ MayStart(p)
    /\ \E cl \in world.callers :
        /\ cl.desc.shape = "query"
        /\ LET options == Spread([ttl |-> 0, tags |-> <<>>], cl.options)
               cacheKey == CreateKey(cl.desc, [serviceName |-> ServiceName],
                                     Template(options))
           IN IF cl.desc.verb = "SELECT"
              THEN Begin(p, cl, "has", options, cacheKey, <<>>, NoOut)
              ELSE Begin(p, cl, "passthrough", NoOptions, NullKey, <<>>, NoOut)
    /\ UNCHANGED <<store, prev, faults, world, statistics, cacheAnnotatedFunctions, currentStats, history>>

RunQueryHas(p) == At(p, "query", "has") /\ HasStep(p)
RunQueryRecordHit(p) == At(p, "query", "recordHit") /\ RecordHitStep(p)
RunQueryGet(p) == At(p, "query", "get") /\ GetStep(p)
RunQueryOrigin(p) == At(p, "query", "origin") /\ OriginStep(p)
RunQueryRecordMiss(p) == At(p, "query", "recordMiss") /\ RecordMissStep(p)
RunQuerySet(p) == At(p, "query", "set") /\ SetStep(p)

\* return next() / return srv.run(query): the origin's answer is handed back
\* as it is
RunPassthrough(p) ==
    LET c == call[p] IN
    /\ c.pc = "passthrough"
    /\ \/ \E r \in world.vals :
            /\ call' = [call EXCEPT ![p] =
                  [c EXCEPT !.pc = "done", !.awaits = @ + 1, !.resp = r,
                            !.ops = Append(@, Op("origin", "ok")),
                            !.out = Raw(r)]]
            /\ UNCHANGED faults
       \/ \E e \in OriginErrors :
            /\ MayFail(FALSE) /\ Count(FALSE)
            /\ call' = [call EXCEPT ![p] =
                  [c EXCEPT !.pc = "done", !.awaits = @ + 1,
                            !.ops = Append(@, Op("origin", e)),
                            !.out = Thrown(e)]]
    /\ UNCHANGED <<store, prev, world, statistics, cacheAnnotatedFunctions, currentStats, history>>

\* the final return of run: no Request, no query
RunOther(p) ==
    /\ MayStart(p)
    /\ \E cl \in world.callers :
        /\ cl.desc.shape = "other"
        /\ Begin(p, cl, "done", NoOptions, NullKey, <<>>, BypassEnvelope)
    /\ UNCHANGED <<store, prev, faults, world, statistics, cacheAnnotatedFunctions, currentStats, history>>

(***************************************************************************)
(* Completion of a call, invalidation, and the specifications.             *)
(***************************************************************************)
NoEvent == [ev |-> "none", chain |-> 0]

\* the call is a miss that cached its response under the tag
CachedWithTag(c, tag) ==
    /\ c.out.kind = "envelope" /\ ~c.out.metadata.hit
    /\ c.out.cacheErrors = <<>>
    /\ \E i \in DOMAIN ResolveTags(c.options, c.resp) :
            ResolveTags(c.options, c.resp)[i] = tag

SameCaller(c, e) ==
    e.ev \in {"call", "deleteByTag"} /\ e.desc = c.desc /\ e.options = c.options

\* the deprecated CachingService.send / run: const result = await
\* this.rt.send(...); return result.result -- a property read of null or
\* undefined throws a TypeError
ResultOf(out) ==
    CASE out.kind = "thrown" -> out
      [] out.kind = "envelope" -> Raw(out.result)
      [] OTHER -> IF out.value.t \in {"undefined", "null"} THEN Thrown("TypeError")
                  ELSE Raw(Field(out.value, "result"))

\* what the caller of the API is handed
Returned(out) == IF world.api = "deprecated" THEN ResultOf(out) ELSE out

\* the caller takes the outcome; the call becomes the last completed event
\* (in a concurrent world the history keeps the kind of the event alone)
Return(p) ==
    LET c == call[p] IN
    /\ c.pc = "done"
    /\ call' = [call EXCEPT ![p] = Idle]
    /\ prev' = IF world.concurrent THEN [ev |-> "call", chain |-> 0]
               ELSE [ev |-> "call", desc |-> c.desc, options |-> c.options,
                     out |-> c.out, ops |-> c.ops, resp |-> c.resp, key |-> c.key,
                     returned |-> Returned(c.out),
                     first |-> (prev.ev = "none"),
                     chain |-> IF CachedWithTag(c, "books") THEN 1
                               ELSE IF /\ c.out.kind = "envelope" /\ c.out.metadata.hit
                                       /\ prev.chain \in {1, 2} /\ SameCaller(c, prev)
                                    THEN 2 ELSE 0]
    /\ UNCHANGED <<store, faults, world, statistics, cacheAnnotatedFunctions, currentStats, history>>

\* history: an invalidation that covers the key of a call in flight overtakes
\* the call, after its origin invocation ("fetched") or before it ("probing")
Overtake(c, covered) ==
    IF c.pc = "idle" \/ ~covered \/ c.overtaken = "fetched" THEN c
    ELSE [c EXCEPT !.overtaken = IF c.pc \in {"recordMiss", "set"} THEN "fetched"
                                 ELSE "probing"]

\* history: the entries that are gone are stale no more
Forget ==
    history' = [history EXCEPT !.stale = @ \cap DOMAIN store']

\* CachingService.deleteByTag(tag)
DeleteByTag(tag) ==
    /\ world.concurrent \/ \A q \in Procs : call[q].pc = "idle"
    /\ store' = DeleteByTagStore(store, tag)
    /\ prev' = IF prev.ev = "deleteByTag" THEN prev
               ELSE IF prev.chain = 2
               THEN [prev EXCEPT !.ev = "deleteByTag", !.chain = 3]
               ELSE [ev |-> "deleteByTag", chain |-> 0]
    /\ call' = [q \in Procs |->
                  [Overtake(call[q], Has(store, call[q].key) /\ ~Has(store', call[q].key))
                      EXCEPT !.lastSet = @ /\ Has(store', call[q].key)]]
    /\ Forget
    /\ UNCHANGED <<faults, world, statistics, cacheAnnotatedFunctions, currentStats>>

(***************************************************************************)
(* CachingService: the switches of the statistics recorder.                *)
(***************************************************************************)
\* statistics.enableMetrics(enabled), statistics.enableKeyMetrics(enabled)
EnableMetrics(st, enabled) == [st EXCEPT !.metricsEnabled = enabled]
EnableKeyMetrics(st, enabled) == [st EXCEPT !.keyMetricsEnabled = enabled]

\* a call of a switch method as the last completed event
Switched(name, enabled, ok) ==
    [ev |-> name, enabled |-> enabled, outcome |-> Outcome(ok),
     before |-> statistics, chain |-> 0]

\* variant of setMetricsEnabled that switches key tracking along
SetMetricsEnabledBoth(enabled) ==
    /\ world.admin
    /\ \E ok \in BOOLEAN :
        /\ MayFail(ok) /\ Count(ok)
        /\ statistics' = IF ok
                         THEN EnableKeyMetrics(EnableMetrics(statistics, enabled), enabled)
                         ELSE statistics
        /\ prev' = Switched("setMetricsEnabled", enabled, ok)
    /\ UNCHANGED <<store, call, world, cacheAnnotatedFunctions, currentStats, history>>

\* setMetricsEnabled(enabled): the runtime configuration manager persists the
\* value (ok tells whether it returned), then the recorder is switched
SetMetricsEnabled(enabled) ==
    /\ world.admin
    /\ \E ok \in BOOLEAN :
        /\ MayFail(ok) /\ Count(ok)
        /\ statistics' = IF ok THEN EnableMetrics(statistics, enabled) ELSE statistics
        /\ prev' = Switched("setMetricsEnabled", enabled, ok)
    /\ UNCHANGED <<store, call, world, cacheAnnotatedFunctions, currentStats, history>>

\* setKeyMetricsEnabled(enabled)
SetKeyMetricsEnabled(enabled) ==
    /\ world.admin
    /\ \E ok \in BOOLEAN :
        /\ MayFail(ok) /\ Count(ok)
        /\ statistics' = IF ok THEN EnableKeyMetrics(statistics, enabled) ELSE statistics
        /\ prev' = Switched("setKeyMetricsEnabled", enabled, ok)
    /\ UNCHANGED <<store, call, world, cacheAnnotatedFunctions, currentStats, history>>

(***************************************************************************)
(* CachingService: the SET and GET events.                                 *)
(***************************************************************************)
\* this.on('SET', handleSet): ok tells whether this.cache.set returned
SetEvent(data) ==
    /\ world.events
    /\ \E ok \in BOOLEAN :
        /\ MayFail(ok) /\ Count(ok)
        /\ store' = IF ok
                    THEN HandleSet(store, data.key, data.value, OrZero(data, "ttl"))
                    ELSE store
        /\ call' = [q \in Procs |->
                      [call[q] EXCEPT !.lastSet = @ /\ ~(ok /\ call[q].key = data.key)]]
        /\ prev' = [ev |-> "SET", key |-> data.key, value |-> data.value,
                    outcome |-> Outcome(ok), chain |-> 0]
    /\ UNCHANGED <<world, statistics, cacheAnnotatedFunctions, currentStats, history>>

\* this.on('GET', handleGet): ok tells whether this.cache.get returned
GetEvent(key) ==
    /\ world.events
    /\ \E ok \in BOOLEAN :
        /\ MayFail(ok) /\ Count(ok)
        /\ prev' = [ev |-> "GET", key |-> key,
                    result |-> IF ok THEN Raw(HandleGet(store, key))
                               ELSE Thrown("get failed"),
                    after |-> IF prev.ev = "SET" THEN prev ELSE NoEvent,
                    chain |-> 0]
    /\ UNCHANGED <<store, call, world, statistics, cacheAnnotatedFunctions, currentStats, history>>

(***************************************************************************)
(* CachingService.addCachableFunction(name, options, isBound)              *)
(***************************************************************************)
AddCachableFunction(name, options, isBound) ==
    LET functionType == IF isBound THEN "bound" ELSE "unbound" IN
    /\ world.registers
    /\ \A q \in Procs : call[q].pc = "idle"
    /\ Len(cacheAnnotatedFunctions[functionType]) < MaxFunctions
    /\ cacheAnnotatedFunctions' =
          [cacheAnnotatedFunctions EXCEPT
              ![functionType] = Append(@, [name |-> name, options |-> options])]
    /\ UNCHANGED <<store, call, prev, faults, world, statistics, currentStats, history>>

\* config[name] of a loaded runtime configuration; a field the configuration
\* does not have reads undefined, which the recorder takes as off
ConfigFlag(config, name) == IF name \in DOMAIN config THEN config[name] ELSE FALSE

\* the methods loadRuntimeConfiguration calls on the recorder
ReloadMethods == {"enableKeyTracking", "enableStatistics"}

\* reloadRuntimeConfiguration() -> loadRuntimeConfiguration(): the runtime
\* configuration manager loads config (loaded tells whether it returned), then
\* statistics.enableKeyTracking(config.enableKeyTracking) and
\* statistics.enableStatistics(config.enableStatistics), all inside try / catch.
\* has is the set of those methods the recorder provides: calling one it
\* lacks throws a TypeError, which the catch swallows.
ReloadRuntimeConfiguration(config) ==
    /\ world.admin /\ \A q \in Procs : call[q].pc = "idle"
    /\ \E loaded \in BOOLEAN, has \in SUBSET ReloadMethods :
        LET key == loaded /\ "enableKeyTracking" \in has
            all == key /\ "enableStatistics" \in has
            st1 == IF key
                   THEN EnableKeyMetrics(statistics, ConfigFlag(config, "enableKeyTracking"))
                   ELSE statistics
            st2 == IF all
                   THEN EnableMetrics(st1, ConfigFlag(config, "enableStatistics"))
                   ELSE st1
        IN
        /\ MayFail(loaded) /\ Count(loaded)
        /\ statistics' = st2
        /\ prev' = [ev |-> "reloadRuntimeConfiguration", config |-> config,
                    loaded |-> loaded, outcome |-> "ok", before |-> statistics,
                    chain |-> 0]
    /\ UNCHANGED <<store, call, world, cacheAnnotatedFunctions, currentStats, history>>

\* this.on('DELETE', handleDelete): ok tells whether this.cache.delete returned
DeleteEvent(key) ==
    /\ world.invalidates
    /\ \E ok \in BOOLEAN :
        /\ MayFail(ok) /\ Count(ok)
        /\ store' = IF ok THEN StoreDelete(store, {key}) ELSE store
        /\ call' = [q \in Procs |->
                      [Overtake(call[q], ok /\ call[q].key = key)
                          EXCEPT !.lastSet = @ /\ Has(store', call[q].key)]]
        /\ prev' = [ev |-> "DELETE", key |-> key, outcome |-> Outcome(ok), chain |-> 0]
    /\ Forget
    /\ UNCHANGED <<world, statistics, cacheAnnotatedFunctions, currentStats>>

\* this.on('CLEAR', handleClear): cache.clear(), statistics.resetCurrentStats(),
\* then deleteMetrics() and deleteKeyMetrics() inside try / catch; failing names
\* the call that throws
ResetCurrentStatsKeeps(stats) == stats

\* CacheStatisticsHandler.resetCurrentStats()
ResetCurrentStats(stats) == NoSamples

ClearSteps == {"clear", "resetCurrentStats", "deleteMetrics", "deleteKeyMetrics"}
ClearEvent ==
    /\ world.invalidates
    /\ \E failing \in ClearSteps \cup {"none"} :
        LET cleared == failing # "clear"
            reset == failing \notin {"clear", "resetCurrentStats"}
        IN
        /\ MayFail(failing = "none") /\ Count(failing = "none")
        /\ store' = IF cleared THEN EmptyStore ELSE store
        /\ currentStats' = IF reset THEN ResetCurrentStats(currentStats) ELSE currentStats
        /\ call' = [q \in Procs |->
                      [Overtake(call[q], cleared)
                          EXCEPT !.lastSet = @ /\ Has(store', call[q].key)]]
        /\ prev' = [ev |-> "CLEAR", failing |-> failing,
                    outcome |-> Outcome(reset), chain |-> 0,
                    held |-> store # EmptyStore, sampled |-> currentStats # NoSamples]
    /\ Forget
    /\ UNCHANGED <<world, statistics, cacheAnnotatedFunctions>>

Init ==
    /\ store = EmptyStore
    /\ call = [p \in Procs |-> Idle]
    /\ prev = NoEvent
    /\ faults = 0
    /\ world \in Worlds \cup ConcurrentWorlds \cup AdminWorlds \cup ShortcutWorlds
                \cup DispatchWorlds \cup RegistryWorlds \cup InvalidationWorlds
    /\ statistics = world.config
    /\ cacheAnnotatedFunctions = [bound |-> <<>>, unbound |-> <<>>]
    /\ currentStats = NoSamples
    /\ history = [origins |-> {}, stale |-> {}]

Next ==
    \/ \E p \in Procs :
        \/ SendStart(p) \/ SendHas(p) \/ SendRecordHit(p) \/ SendGet(p)
        \/ SendOrigin(p) \/ SendRecordMiss(p) \/ SendSet(p)
        \/ RunRequestStart(p) \/ RunRequestGet(p) \/ RunRequestRecordHit(p)
        \/ RunRequestOrigin(p) \/ RunRequestRecordMiss(p) \/ RunRequestSet(p)
        \/ RunQueryStart(p) \/ RunQueryHas(p) \/ RunQueryRecordHit(p)
        \/ RunQueryGet(p) \/ RunQueryOrigin(p) \/ RunQueryRecordMiss(p)
        \/ RunQuerySet(p)
        \/ RunPassthrough(p) \/ RunOther(p)
        \/ Return(p)
    \/ DeleteByTag("books")
    \/ \E name \in FunctionNames, options \in RegisteredOptions, isBound \in BOOLEAN :
            AddCachableFunction(name, options, isBound)
    \/ \E data \in EventData : SetEvent(data)
    \/ GetEvent(EventKey)
    \/ \E key \in {EventKey} \cup {call[p].key : p \in Procs} : DeleteEvent(key)
    \/ ClearEvent
    \/ \E config \in Configs : ReloadRuntimeConfiguration(config)
    \/ \E enabled \in BOOLEAN :
        \/ SetMetricsEnabled(enabled) \/ SetKeyMetricsEnabled(enabled)

Spec == Init /\ [][Next]_vars

(***************************************************************************)
(* Vocabulary of the properties.                                           *)
(***************************************************************************)
Did(c, name) == \E i \in DOMAIN c.ops : c.ops[i].op = name
Failed(c, name) == \E i \in DOMAIN c.ops : c.ops[i].op = name /\ c.ops[i].outcome = "threw"
OriginThrew(c) ==
    \E i \in DOMAIN c.ops : c.ops[i].op = "origin" /\ c.ops[i].outcome \in OriginErrors
OriginError(c) ==
    c.ops[CHOOSE i \in DOMAIN c.ops : c.ops[i].op = "origin"].outcome
NothingFailed(ops) ==
    \A i \in DOMAIN ops : ops[i].outcome \notin {"threw"} \cup OriginErrors

\* a write descriptor: a mutating HTTP method in any letter case, a Request with
\* an INSERT / UPDATE / DELETE query, a query that is no SELECT
WriteDescriptor(d) ==
    \/ d.shape = "send"
         /\ d.method \in {"POST", "PUT", "DELETE", "PATCH", "post", "Patch"}
    \/ d.shape \in {"request", "query"} /\ d.verb \in {"INSERT", "UPDATE", "DELETE"}
\* a descriptor of one of the three shapes that is read through the cache
ReadDescriptor(d) ==
    d.shape \in {"send", "request", "query"} /\ d.hasSend /\ ~WriteDescriptor(d)

IsEnvelope(c) == c.out.kind = "envelope"
IsHitEnvelope(c) == IsEnvelope(c) /\ c.out.metadata.hit
IsMissEnvelope(c) == IsEnvelope(c) /\ ~c.out.metadata.hit

\* the call follows, with the same descriptor and options, the first call made
\* on the empty backend, and neither met a failure
SecondOfRoundTrip(c) ==
    /\ ~world.concurrent /\ c.pc = "done" /\ ReadDescriptor(c.desc)
    /\ NothingFailed(c.ops)
    /\ prev.ev = "call" /\ prev.first /\ NothingFailed(prev.ops) /\ SameCaller(c, prev)
FirstOfRoundTrip(c) ==
    /\ ~world.concurrent /\ c.pc = "done" /\ ReadDescriptor(c.desc)
    /\ NothingFailed(c.ops) /\ prev.ev = "none"

\* a value JSON serialisation gives back unchanged
SurvivesJSON(v) == v # Undefined /\ ToJSON(v) = v

(***************************************************************************)
(* Properties.                                                             *)
(***************************************************************************)
\* C1 (as stated): on an empty backend, with no failure, the first call for a
\* read descriptor returns hit = false and the call that follows it with the
\* same descriptor returns hit = true with the identical result.
C1_RoundTripAnyResult ==
    \A p \in Procs :
        LET c == call[p] IN
        /\ FirstOfRoundTrip(c) => IsMissEnvelope(c)
        /\ SecondOfRoundTrip(c) =>
              IsHitEnvelope(c) /\ c.out.result = prev.out.result

\* C1 (amended): the first call returns hit = false; when the origin's result
\* is one that JSON serialisation gives back unchanged, the call that follows
\* with the same descriptor returns hit = true with the identical result.
C1_RoundTrip ==
    \A p \in Procs :
        LET c == call[p] IN
        /\ FirstOfRoundTrip(c) => IsMissEnvelope(c) /\ c.out.result = c.resp
        /\ SecondOfRoundTrip(c) /\ SurvivesJSON(prev.out.result) =>
              IsHitEnvelope(c) /\ c.out.result = prev.out.result

C1_Witness ==
    \E p \in Procs :
        /\ SecondOfRoundTrip(call[p]) /\ IsHitEnvelope(call[p])
        /\ call[p].desc.shape = "request"
        /\ call[p].out.result = RowA /\ prev.out.result = RowA

\* C2: when the origin invocation throws E, the call throws the identical E,
\* has issued no SET and has recorded no miss.
C2_OriginFailurePropagates ==
    \A p \in Procs :
        LET c == call[p] IN
        (c.pc = "done" /\ OriginThrew(c)) =>
            /\ c.out = Thrown(OriginError(c))
            /\ ~Did(c, "set") /\ ~Did(c, "recordMiss")

C2_Witness ==
    \E p \in Procs :
        /\ call[p].pc = "done" /\ call[p].desc.shape = "send"
        /\ Failed(call[p], "get")
        /\ OriginThrew(call[p]) /\ call[p].out = Thrown("E2")

\* C3: a call throws if and only if its origin invocation throws, whichever
\* backend, statistics or header calls fail.
C3_ThrowsOnlyWithOrigin ==
    \A p \in Procs :
        LET c == call[p] IN
        c.pc = "done" => (c.out.kind = "thrown" <=> OriginThrew(c))

\* C4: when has throws (and nothing else fails) the call does not throw, invokes
\* the origin, returns hit = false with the origin's result, and cacheErrors
\* holds exactly one entry, the one of the failed has.
C4_HasFailureReported ==
    \A p \in Procs :
        LET c == call[p] IN
        (/\ c.pc = "done" /\ Failed(c, "has")
         /\ \A i \in DOMAIN c.ops : c.ops[i].op # "has" => c.ops[i].outcome
                                        \notin {"threw"} \cup OriginErrors) =>
            /\ IsMissEnvelope(c) /\ Did(c, "origin") /\ c.out.result = c.resp
            /\ Len(c.out.cacheErrors) = 1
            /\ c.out.cacheErrors[1].operation = "has"

\* C5: for a write descriptor no has / get / set is invoked and the call returns
\* the envelope with cacheKey = null, metadata = {hit: false, latency: 0} and
\* cacheErrors = [].
C5_MutationBypassEnvelope ==
    \A p \in Procs :
        LET c == call[p] IN
        (c.pc # "idle" /\ WriteDescriptor(c.desc)) =>
            /\ ~Did(c, "has") /\ ~Did(c, "get") /\ ~Did(c, "set")
            /\ (c.pc = "done" /\ c.out.kind # "thrown") =>
                  /\ IsEnvelope(c)
                  /\ c.out.cacheKey = NullKey
                  /\ c.out.metadata = [hit |-> FALSE, latency |-> 0]
                  /\ c.out.cacheErrors = <<>>

\* C6: a call that returns hit = true returns the value field of the entry
\* stored under its cache key (the entry its GET returned, which is the stored
\* one while no other call or invalidation runs), and has neither invoked the
\* origin nor issued a SET.
C6_HitLeavesOriginAlone ==
    \A p \in Procs :
        LET c == call[p] IN
        (c.pc = "done" /\ IsHitEnvelope(c)) =>
            /\ ~Did(c, "origin") /\ ~Did(c, "set")
            /\ c.out.cacheKey = c.key
            /\ c.out.result = Field(c.got, "value")
            /\ (~world.concurrent /\ c.overtaken = "no") =>
                  c.got = HandleGet(store, c.key)

C6_Witness ==
    \E p \in Procs :
        /\ call[p].pc = "done" /\ IsHitEnvelope(call[p])
        /\ call[p].desc.shape = "query" /\ call[p].out.result = Null
        /\ ~world.concurrent

\* C7: after a call with tags = [t] has cached its result, a second call has
\* hit it and deleteByTag(t) has completed, the next call with the same
\* descriptor (once past the write of its key header) returns no hit and
\* invokes the origin again.
C7_MissAfterDeleteByTag ==
    \A p \in Procs :
        LET c == call[p] IN
        (/\ ~world.concurrent /\ c.pc = "done"
         /\ prev.ev = "deleteByTag" /\ prev.chain = 3 /\ SameCaller(c, prev)
         /\ ~Failed(c, "x-sap-cap-cache-key")) =>
            /\ ~IsHitEnvelope(c)
            /\ Did(c, "origin")

C7_Witness ==
    \E p \in Procs :
        /\ ~world.concurrent /\ call[p].pc = "done"
        /\ prev.ev = "deleteByTag" /\ prev.chain = 3 /\ SameCaller(call[p], prev)
        /\ call[p].desc.shape = "send"
        /\ IsMissEnvelope(call[p]) /\ call[p].out.result = RowA
        /\ call[p].key \in DOMAIN store

\* the entries of cacheErrors that come from statistics recording, and the
\* recordings that threw
IsRecordingError(e) == e.operation \in {"recordHit", "recordMiss"}
IsFailedRecording(o) == o.op \in {"recordHit", "recordMiss"} /\ o.outcome = "threw"
Names(seq, field) == [i \in DOMAIN seq |-> seq[i][field]]

C9_LastWriterWins ==
    \A p \in Procs :
        LET c == call[p] IN
        (/\ world.concurrent /\ \A q \in Procs : call[q].pc = "done"
         /\ c.lastSet) =>
            /\ Has(store, c.key)
            /\ HandleGet(store, c.key) = ToJSON(WrappedValue(c.resp, c.opts))
            /\ store[c.key].ttl = OrZero(c.opts, "ttl")

C9_Witness ==
    /\ world.concurrent
    /\ \A q \in Procs :
          /\ call[q].pc = "done" /\ IsMissEnvelope(call[q])
          /\ Did(call[q], "origin") /\ Did(call[q], "set")
          /\ NothingFailed(call[q].ops)
          /\ \A i \in DOMAIN call[q].ops :
                call[q].ops[i].outcome \notin {"true", "value"}
    /\ call[1].key = call[2].key
    /\ call[1].resp = RowA /\ call[2].resp = RowB
    /\ call[1].lastSet /\ ~call[2].lastSet
    /\ Field(HandleGet(store, call[1].key), "value") = RowA

\* C10: with no key template, two calls whose descriptors differ only in
\* tenant, user, locale or payload use different cache keys, so the later one
\* gets no hit on the entry of the earlier one.
C10_KeyIsolation ==
    \A p \in Procs :
        LET c == call[p] IN
        (/\ ~world.concurrent /\ c.pc # "idle" /\ ReadDescriptor(c.desc)
         /\ prev.ev = "call" /\ ReadDescriptor(prev.desc)
         /\ Template(c.opts) = NoTemplate
         /\ c.desc.shape = prev.desc.shape /\ Diff(c.desc, prev.desc) = 1
         /\ c.desc.ctx # prev.desc.ctx \/ c.desc.data # prev.desc.data) =>
            /\ c.key # prev.key
            /\ ~IsHitEnvelope(c)

\* the collaborator calls of a kind that a call has made with an outcome
Made(c, name, outcome) ==
    \E i \in DOMAIN c.ops : c.ops[i].op = name /\ c.ops[i].outcome = outcome
HowMany(c, name) == Cardinality({i \in DOMAIN c.ops : c.ops[i].op = name})

\* C11: a step of a read-through call changes the store only when it is the
\* call's one SET, issued after its origin invocation succeeded, and then
\* only the entry under the call's own cache key; every other step of a call
\* (hit, bypass, origin failure) leaves the store as it is, no entry is deleted
\* and no entry under another key is altered.
C11_StoreFrame ==
    [][(\E p \in Procs : call'[p].pc # call[p].pc) =>
          /\ \A p \in Procs : HowMany(call'[p], "set") <= 1
          /\ \/ store' = store
             \/ \E p \in Procs :
                   LET c == call[p] IN
                   /\ c.pc = "set" /\ Made(c, "origin", "ok") /\ ~Did(c, "set")
                   /\ Made(call'[p], "set", "ok")
                   /\ IsMissEnvelope(call'[p]) /\ call'[p].out.cacheKey = c.key
                   /\ DOMAIN store' = DOMAIN store \cup {c.key}
                   /\ \A k \in DOMAIN store \ {c.key} : store'[k] = store[k]]_vars

C11_Witness ==
    \E p \in Procs :
        /\ call[p].pc = "done" /\ Made(call[p], "set", "ok")
        /\ Cardinality(DOMAIN store) = 2
        /\ call[p].key \in DOMAIN store

\* C12: setMetricsEnabled(e) that returns leaves the metrics switch at e and
\* the key tracking switch as it was; setKeyMetricsEnabled(e) that returns
\* leaves the key tracking switch at e and the metrics switch as it was; a
\* switch method that throws changes neither.
C12_IndependentToggles ==
    /\ (prev.ev = "setMetricsEnabled" /\ prev.outcome = "ok") =>
            /\ statistics.metricsEnabled = prev.enabled
            /\ statistics.keyMetricsEnabled = prev.before.keyMetricsEnabled
    /\ (prev.ev = "setKeyMetricsEnabled" /\ prev.outcome = "ok") =>
            /\ statistics.keyMetricsEnabled = prev.enabled
            /\ statistics.metricsEnabled = prev.before.metricsEnabled
    /\ (prev.ev \in {"setMetricsEnabled", "setKeyMetricsEnabled"}
          /\ prev.outcome = "threw") => statistics = prev.before

C12_Witness ==
    /\ prev.ev = "setMetricsEnabled" /\ prev.outcome = "ok" /\ prev.enabled
    /\ world.config = [metricsEnabled |-> TRUE, keyMetricsEnabled |-> TRUE]
    /\ prev.before = [metricsEnabled |-> FALSE, keyMetricsEnabled |-> FALSE]
    /\ statistics = [metricsEnabled |-> TRUE, keyMetricsEnabled |-> FALSE]
    /\ \E p \in Procs : call[p].pc = "origin"

\* C13: a deprecated shortcut that hands its request to the read-through
\* layer, and does not throw, returns the value the origin produced (miss or
\* bypass) or the cached value (hit).
C13_ShortcutReturnsResult ==
    (/\ world.api = "deprecated" /\ prev.ev = "call"
     /\ prev.desc.shape # "other" /\ prev.out.kind # "thrown") =>
        prev.returned = Raw(IF Made(prev, "origin", "ok") THEN prev.resp
                            ELSE prev.out.result)

\* C14: a GET event for key k that follows a SET event for (k, v), both
\* completed and with nothing in between, returns a value equal to v: for
\* objects, plain strings and strings whose text is valid JSON.
C14_DispatchRoundTrip ==
    (/\ prev.ev = "GET" /\ prev.result.kind = "raw"
     /\ prev.after.ev = "SET" /\ prev.after.outcome = "ok"
     /\ prev.after.key = prev.key) =>
        prev.result = Raw(prev.after.value)

\* C15: in each of the three shapes a call issues the backend get only after
\* has reported true in the same call; when has reports false or throws, the
\* call issues no get.
C15_GetOnlyAfterHas ==
    \A p \in Procs :
        LET c == call[p] IN
        (c.pc # "idle" /\ ReadDescriptor(c.desc)) =>
            /\ Did(c, "get") => Made(c, "has", "true")
            /\ (Made(c, "has", "false") \/ Made(c, "has", "threw")) => ~Did(c, "get")

\* C16: a read-through call that is not bypassed and returns an envelope has
\* handed the recorder exactly one sample: a hit if the envelope says hit =
\* true, a miss if it says hit = false.
C16_OneSamplePerCall ==
    \A p \in Procs :
        LET c == call[p] IN
        (c.pc = "done" /\ IsEnvelope(c) /\ ReadDescriptor(c.desc)) =>
            /\ HowMany(c, "recordHit") + HowMany(c, "recordMiss") = 1
            /\ HowMany(c, "recordHit") = 1 <=> c.out.metadata.hit

\* the names of the operations reported in cacheErrors
Reported(c, name) ==
    \E i \in DOMAIN c.out.cacheErrors : c.out.cacheErrors[i].operation = name
NoHeaderFailed(c) ==
    ~Failed(c, "x-sap-cap-cache-key") /\ ~Failed(c, "x-sap-cap-cache")

\* C17: when the backend get of a call throws or returns no value (and neither
\* the origin nor a header write throws), the call invokes the origin and
\* returns hit = false with the origin's result; a get that threw is reported
\* in cacheErrors as an entry with operation 'get'.
C17_GetFailureFallback ==
    \A p \in Procs :
        LET c == call[p] IN
        (/\ c.pc = "done" /\ ReadDescriptor(c.desc)
         /\ Made(c, "get", "threw") \/ Made(c, "get", "nothing")
         /\ ~OriginThrew(c) /\ NoHeaderFailed(c)) =>
            /\ IsMissEnvelope(c) /\ Made(c, "origin", "ok") /\ c.out.result = c.resp
            /\ Made(c, "get", "threw") => Reported(c, "get")

\* of the collaborator calls in ops, the SET threw and no other one failed
OnlySetFailed(ops) ==
    /\ \E i \in DOMAIN ops : ops[i].op = "set" /\ ops[i].outcome = "threw"
    /\ \A i \in DOMAIN ops :
          ops[i].op # "set" => ops[i].outcome \notin {"threw"} \cup OriginErrors

\* C18: when the SET of a call throws (and nothing else fails in the call) the
\* call returns the origin's result with hit = false and cacheErrors holds
\* exactly one entry, with operation 'set'; the backend holds no value under
\* the key (no entry at all when has had reported false), and the next call
\* with the same descriptor gets no hit and invokes the origin again.
C18_SetFailureFallback ==
    \A p \in Procs :
        LET c == call[p] IN
        (~world.concurrent /\ c.pc = "done" /\ ReadDescriptor(c.desc)) =>
            /\ OnlySetFailed(c.ops) =>
                  /\ IsMissEnvelope(c) /\ c.out.result = c.resp
                  /\ Len(c.out.cacheErrors) = 1
                  /\ c.out.cacheErrors[1].operation = "set"
                  /\ Field(HandleGet(store, c.key), "value") = Undefined
                  /\ Made(c, "has", "false") => ~Has(store, c.key)
            /\ (/\ prev.ev = "call" /\ SameCaller(c, prev) /\ OnlySetFailed(prev.ops)
                /\ NoHeaderFailed(c)) =>
                  ~IsHitEnvelope(c) /\ Did(c, "origin")

C18_Witness ==
    \E p \in Procs :
        LET c == call[p] IN
        /\ ~world.concurrent /\ c.pc = "done" /\ c.desc.shape = "request"
        /\ prev.ev = "call" /\ SameCaller(c, prev) /\ OnlySetFailed(prev.ops)
        /\ prev.out.cacheErrors = <<[message |-> "failed", operation |-> "set",
                                     context |-> c.key]>>
        /\ IsMissEnvelope(c) /\ Made(c, "origin", "ok") /\ Made(c, "set", "ok")

\* the data of the SET event a call has sent
SetData(c) == c.ops[CHOOSE i \in DOMAIN c.ops : c.ops[i].op = "set"].data

HeaderValues(c, name) ==
    LET IsWrite(o) == o.op = name /\ o.outcome = "ok"
    IN Names(SelectSeq(c.ops, IsWrite), "value")

Registered(f, name) ==
    IF name \in DOMAIN f.options THEN f.options[name] ELSE f.options["@cache." \o name]

\* C21: a Request-shaped call for a function registered with
\* addCachableFunction that passes no options of its own uses the registered
\* ttl, key template and tags, for its key and for the entry it writes.
C21_RegisteredOptionsUsed ==
    \A p \in Procs :
        LET c == call[p]
            f == FindFunction(c.desc)
        IN (/\ c.pc # "idle" /\ c.desc.shape = "request" /\ c.desc.event # ""
            /\ c.options = NoOptions /\ f # NoOptions) =>
              /\ c.opts.ttl = Registered(f, "ttl")
              /\ c.opts.key = Registered(f, "key")
              /\ c.opts.tags = Registered(f, "tags")
              /\ Did(c, "set") =>
                    /\ SetData(c).ttl = Registered(f, "ttl")
                    /\ SetData(c).value.f.tags = Arr(Registered(f, "tags"))

\* a step that completes a CLEAR event
ClearCompletes ==
    /\ prev'.ev = "CLEAR" /\ prev'.outcome = "ok"
    /\ \A p \in Procs : call'[p].pc = call[p].pc /\ call'[p].ops = call[p].ops

C23_ReloadAppliesConfig ==
    prev.ev = "reloadRuntimeConfiguration" =>
        /\ prev.outcome = "ok"
        /\ prev.loaded =>
              /\ statistics.metricsEnabled = prev.config.metricsEnabled
              /\ statistics.keyMetricsEnabled = prev.config.keyMetricsEnabled

\* a call of rt.send in a mutation bypass: a mutating method in any letter
\* case, or a service without a send method
SendInBypass(c) ==
    c.pc # "idle" /\ c.desc.shape = "send" /\ (WriteDescriptor(c.desc) \/ ~c.desc.hasSend)

\* a call of rt.run in a bypass: a Request with a mutating query, a query that
\* is no SELECT
RunInBypass(c) ==
    c.pc # "idle" /\ c.desc.shape \in {"request", "query"} /\ WriteDescriptor(c.desc)

\* C24: rt.send in a mutation bypass never invokes the origin and returns
\* result = null; rt.run in a bypass invokes the origin exactly once and hands
\* back what the origin returned, or the error the origin threw.
C24_BypassAndOrigin ==
    \A p \in Procs :
        LET c == call[p] IN
        /\ SendInBypass(c) =>
              /\ ~Did(c, "origin")
              /\ c.pc = "done" => IsEnvelope(c) /\ c.out.result = Null
        /\ RunInBypass(c) =>
              /\ HowMany(c, "origin") <= 1
              /\ c.pc = "done" =>
                    /\ HowMany(c, "origin") = 1
                    /\ IF OriginThrew(c) THEN c.out = Thrown(OriginError(c))
                       ELSE c.out = Raw(c.resp)

C24_Witness ==
    /\ \E p \in Procs :
          LET c == call[p] IN
          /\ SendInBypass(c) /\ c.desc.method = "Patch" /\ c.desc.hasSend
          /\ c.pc = "done" /\ c.out.result = Null /\ ~Did(c, "origin")
    /\ prev.ev = "call" /\ prev.desc.method = "GET" /\ Did(prev, "origin")

C24_RunWitness ==
    \E p \in Procs :
        LET c == call[p] IN
        /\ RunInBypass(c) /\ c.pc = "done" /\ c.out = Raw(RowA)
        /\ HowMany(c, "origin") = 1

\* the responses the origin has returned to calls whose cache key was key
ResponsesFor(key) == {o.resp : o \in {h \in history.origins : h.key = key}}

\* the entries the read-through layer has stored: all but those of SET events
ReadThroughKeys == DOMAIN store \ {EventKey}

\* C25: in every reachable state each entry stored by the read-through layer
\* under key k has as its value (in its stored, JSON form) a response that the
\* origin returned to a read-through call whose cache key was k, and a call
\* that has got a hit holds and returns such a response for its own key.
C25_Provenance ==
    /\ \A k \in ReadThroughKeys :
          \E r \in ResponsesFor(k) :
              Field(HandleGet(store, k), "value") = ToJSON(r)
    /\ \A p \in Procs :
          LET c == call[p] IN
          (c.pc # "idle" /\ Made(c, "get", "value")) =>
              /\ \E r \in ResponsesFor(c.key) : Field(c.got, "value") = ToJSON(r)
              /\ IsHitEnvelope(c) => c.out.result = Field(c.got, "value")

C25_Witness ==
    /\ world.concurrent
    /\ call[1].key # call[2].key
    /\ call[1].pc = "done" /\ IsHitEnvelope(call[1]) /\ call[1].out.result = RowA
    /\ call[2].pc = "done" /\ IsMissEnvelope(call[2]) /\ call[2].resp = RowB
    /\ {call[1].key, call[2].key} \subseteq ReadThroughKeys
    /\ Field(HandleGet(store, call[2].key), "value") = RowB

\* C26: once delete(k), deleteByTag of a tag of k's entry, or clear has
\* completed, no later hit for k returns a value that was obtained from an
\* origin invocation made before that invalidation completed.
C26_InvalidationNotUndone ==
    \A p \in Procs : ~call[p].staleHit

\* C27: a read-through call invokes the origin at most once, and exactly once
\* when it returns metadata.hit = false with a cacheKey that is not null; has,
\* GET and SET are issued at most once each, and a failed origin invocation is
\* the last thing the call does.
C27_SingleOriginInvocation ==
    \A p \in Procs :
        LET c == call[p] IN
        c.pc # "idle" =>
            /\ \A name \in {"origin", "has", "get", "set"} : HowMany(c, name) <= 1
            /\ (c.pc = "done" /\ IsMissEnvelope(c) /\ c.out.cacheKey # NullKey) =>
                    HowMany(c, "origin") = 1
            /\ OriginThrew(c) =>
                    /\ c.pc = "done" /\ c.out.kind = "thrown"
                    /\ c.ops[Len(c.ops)].op = "origin"

C27_Witness ==
    \E p \in Procs :
        LET c == call[p] IN
        /\ c.pc = "done" /\ IsMissEnvelope(c) /\ c.out.cacheKey # NullKey
        /\ Made(c, "get", "threw") /\ Made(c, "set", "threw")
        /\ HowMany(c, "origin") = 1 /\ c.out.result = c.resp

\* C28: a call reports hit = true only when the entry its GET returned has a
\* value field that is not undefined; after a first call whose origin returned
\* null, the second call is a hit with result null; where the origin returns
\* undefined no call is a hit and every call that returns an envelope has
\* invoked the origin.
C28_HitNeedsDefinedValue ==
    \A p \in Procs :
        LET c == call[p] IN
        /\ (c.pc # "idle" /\ IsHitEnvelope(c)) =>
              Made(c, "get", "value") /\ Field(c.got, "value") # Undefined
        /\ (SecondOfRoundTrip(c) /\ prev.resp = Null /\ Did(prev, "origin")) =>
              IsHitEnvelope(c) /\ c.out.result = Null /\ ~Did(c, "origin")
        /\ (world.vals = {Undefined} /\ c.pc = "done" /\ ReadDescriptor(c.desc)
              /\ IsEnvelope(c)) =>
              ~IsHitEnvelope(c) /\ Did(c, "origin")

C28_Witness ==
    \E p \in Procs :
        LET c == call[p] IN
        /\ SecondOfRoundTrip(c) /\ prev.resp = Null /\ Did(prev, "origin")
        /\ IsHitEnvelope(c) /\ c.out.result = Null
        /\ Field(c.got, "value") = Null

C28_UndefinedWitness ==
    \E p \in Procs :
        LET c == call[p] IN
        /\ world.vals = {Undefined} /\ SecondOfRoundTrip(c)
        /\ IsMissEnvelope(c) /\ Did(c, "origin") /\ Made(c, "get", "nothing")

====
